---- MODULE Spec2Model ----
(***************************************************************************)
(* RA8835A dot-matrix LCD controller driver (src/src/lib.rs) together with *)
(* the DataBus of the stm32f411 example (src/examples/stm32f411/src).      *)
(*                                                                         *)
(* The driver is sequential code.  It is modelled as a machine that        *)
(* executes one pin / bus / delay call of the source per step.  `stack` is *)
(* the continuation: the calls that are still to be executed, in order.    *)
(* A call of a driver function is replaced by the function's body when it  *)
(* reaches the head of the continuation, so every definition named after a *)
(* function of the source lists that function's statements in source       *)
(* order.                                                                  *)
(*                                                                         *)
(* Rust integer arithmetic that overflows panics in a build with overflow  *)
(* checks ("debug") and wraps in a build without them ("release"); the     *)
(* model carries the build as `build` and produces both outcomes.          *)
(***************************************************************************)
EXTENDS Integers, Sequences, FiniteSets, TLC

VARIABLES
    build,      \* "debug": overflow panics; "release": overflow wraps
    geom,       \* the arguments of Config::new: <<fw, fh, sw, sh>>
    result,     \* what Config::new returned: [tag, cfg]
    config,     \* RA8835A.config
    a0,         \* register-select pin (1 = high, 0 = low)
    wr,         \* write strobe pin, active low
    rd,         \* read strobe pin, active low
    cs,         \* chip-select pin, active low
    res,        \* reset pin, active low
    is_output,  \* DataBus.is_output: direction of the eight data pins
    data,       \* the byte DataBus::write last drove on d0..d7
    dev,        \* controller chip: latched command, parameter count, cursor, driven byte
    mem,        \* controller memory, sparse: address -> nonzero byte (all others are 0)
    stack,      \* continuation of the running operation, <<>> when none runs
    op,         \* the operation that runs or ran last ("off": no driver yet, "idle": none yet)
    opargs,     \* its arguments
    ret,        \* what the last operation returned: "None", "Ok", "Err", "Panic"
    rres,       \* result of the last data.read(): [ok, v]
    current,    \* set_pixel's local `current`
    prim,       \* the bus primitive that runs or ran last: [fn, arg, done]
    ev,         \* the pin / bus / delay calls of that primitive, in order
    log,        \* the transfers and reset-line events of the operation, in order
    reads,      \* number of data.read() calls of the operation so far
    faults,     \* number of failed data.read() calls so far
    nops,       \* number of operations started so far
    plotted     \* the pixels the operation has passed to set_pixel, in order

vars == <<build, geom, result, config, a0, wr, rd, cs, res, is_output, data, dev,
          mem, stack, op, opargs, ret, rres, current, prim, ev, log, reads, faults,
          nops, plotted>>

drv == <<config, a0, wr, rd, cs, res, is_output, data, dev, mem, stack, op, opargs, ret,
         rres, current, prim, ev, log, reads, faults, nops, plotted>>

(***************************************************************************)
(* Integer widths                                                          *)
(***************************************************************************)
U8 == 256
U16 == 65536
I16Max == 32767
I16Min == -32768

Builds == {"debug", "release"}

\* bitwise OR of two bytes
RECURSIVE BitOr(_, _)
BitOr(x, y) ==
    IF x = 0 /\ y = 0 THEN 0
    ELSE (IF x % 2 = 1 \/ y % 2 = 1 THEN 1 ELSE 0) + 2 * BitOr(x \div 2, y \div 2)

Bit(x, k) == (x \div (2 ^ k)) % 2

(***************************************************************************)
(* Command op-codes                                                        *)
(***************************************************************************)
SystemSet == 64
DisplayOff == 88
DisplayOn == 89
Scroll == 68
CsrForm == 93
CsrDirRight == 76
HdotScr == 90
Ovlay == 91
Csrw == 70
Mwrite == 66
Mread == 67

(***************************************************************************)
(* Config::new                                                             *)
(***************************************************************************)
NoConfig ==
    [font_width |-> 0, font_height |-> 0, screen_width |-> 0, screen_height |-> 0,
     text_layer_start |-> 0, graphics_layer_start |-> 0]

Panicked == [tag |-> "Panic", cfg |-> NoConfig]

\* what a checked computation yields when it overflows in a build that checks
\* (no u16 or i16 value)
Ovf == 2 * U16

CrMax == 239

\* bytes_per_char = ((font_width + 7) / 8) as u16, the addition done in u8
BytesPerChar(fw, b) ==
    IF fw + 7 >= U8 /\ b = "debug" THEN Ovf ELSE ((fw + 7) % U8) \div 8

\* text_layer_size = chars_per_line * lines, in u16
TextLayerSize(chars_per_line, lines, b) ==
    IF chars_per_line * lines >= U16 /\ b = "debug" THEN Ovf
    ELSE (chars_per_line * lines) % U16

CrExceeds(cr) == cr > CrMax

Config_new(fw, fh, sw, sh, b) ==
    IF fw = 0 THEN Panicked
    ELSE
    LET chars_per_line == sw \div fw
        bytes_per_char == BytesPerChar(fw, b)
    IN
    IF bytes_per_char = Ovf THEN Panicked
    ELSE IF chars_per_line * bytes_per_char >= U16 /\ b = "debug" THEN Panicked
    ELSE
    LET cr == (chars_per_line * bytes_per_char) % U16 IN
    IF CrExceeds(cr) THEN [tag |-> "Err", cfg |-> NoConfig]
    ELSE IF fh = 0 THEN Panicked
    ELSE
    LET lines == sh \div fh
        text_layer_size == TextLayerSize(chars_per_line, lines, b)
    IN
    IF text_layer_size = Ovf THEN Panicked
    ELSE
    LET text_layer_start == 0
        graphics_layer_start == text_layer_start + text_layer_size
    IN
    [tag |-> "Ok",
     cfg |-> [font_width |-> fw, font_height |-> fh,
              screen_width |-> sw, screen_height |-> sh,
              text_layer_start |-> text_layer_start,
              graphics_layer_start |-> graphics_layer_start]]

(***************************************************************************)
(* Bounds and inputs                                                       *)
(***************************************************************************)
\* operations per behaviour
MaxOps == 1
\* failed bus reads per behaviour
MaxFaults == 1
\* a bus read may fail among the first FaultWindow reads of an operation
FaultWindow == 2

\* arguments of Config::new the driver is run with
Geometries == { <<8, 8, 320, 240>>, <<6, 8, 48, 16>>, <<8, 1, 320, 1000>>, <<8, 1, 320, 600>> }
\* the ones the constructor is run with
PowerOnGeometries == { <<8, 8, 320, 240>>, <<200, 8, 200, 600>> }

PixelXs == {0, 13, 41}
PixelYs == {0, 3, 40, 999, 2000}
\* the colour the example passes to set_pixel
Colors == {TRUE, FALSE}
Texts == { << >>, <<82, 65>> }
TextXs == {0, 13}
TextYs == {9}
Addresses == {0, 4660, 65535}
DataBytes == {0, 165}

\* endpoints of the lines LcdDisplay::draw_line is run with: every pair of
\* LinePoints, the line of the example, and a line across x = 32768
LinePoints == { <<0, 0>>, <<3, 3>>, <<4, 1>>, <<1, 4>>, <<2, 0>> }
ExampleLine == <<50, 50, 200, 200>>
WideLine == <<32767, 0, 32768, 0>>
Lines ==
    { <<p[1], p[2], q[1], q[2]>> : p \in LinePoints, q \in LinePoints }
      \cup { ExampleLine, WideLine }
\* corners of the rectangles LcdDisplay::draw_rectangle is run with
Rectangles ==
    { <<0, 0, 2, 2>>, <<2, 3, 0, 0>>, <<0, 0, 1, 1>>, <<3, 1, 0, 2>>,
      <<0, 0, 2, 0>>, <<1, 0, 1, 3>>, <<1, 1, 1, 1>> }

\* arguments Config::new is applied to
FontWidths == {0, 1, 6, 8, 9, 16, 128, 248, 249, 250, 255}
FontHeights == {0, 1, 8, 16}
ScreenWidths == {0, 8, 239, 240, 320, 1912, 1920, 2000, 65535}
ScreenHeights == {0, 1, 240, 300, 65535}

\* contents of the controller memory when power comes on
Pattern == CHOOSE b \in DataBytes : b # 0
EmptyMem == [a \in {} |-> 0]
PowerOnMems == { EmptyMem, [a \in {4, 16, 1200, 24000, 47000} |-> Pattern] }

(***************************************************************************)
(* Continuation entries.  A pin, bus or delay call is executed in one      *)
(* step; a call of a driver function or a loop is replaced by its body.    *)
(***************************************************************************)
I(i, a, b) == [i |-> i, a |-> a, b |-> b]

Pin(p, level) == I("pin", p, level)
BusW(v) == I("write", v, 0)
BusR == I("read", 0, 0)
SetIn == I("set_input", 0, 0)
SetOut == I("set_output", 0, 0)
DelayNs(n) == I("delay_ns", n, 0)
DelayMs(n) == I("delay_ms", n, 0)
Call(fn, args) == I("call", fn, args)
Ret(fn) == I("ret", fn, 0)
PanicI == I("panic", 0, 0)
IsRet(e, fn) == e.i = "ret" /\ e.a = fn
\* for b in bytes { self.write_data(b) }
Bytes(bs) == I("bytes", bs, 0)
\* for _ in 0..n { self.write_data(v) }
Fill(v, n) == I("fill", v, n)
FillRest(v, n) == I("fill_rest", v, n)

\* unsigned arithmetic of width w: an overflow panics or wraps
Chk(x, w) == IF x >= w \/ x < 0 THEN (IF build = "debug" THEN Ovf ELSE x % w) ELSE x
Add16(x, y) == IF x = Ovf \/ y = Ovf THEN Ovf ELSE Chk(x + y, U16)
Mul16(x, y) == IF x = Ovf \/ y = Ovf THEN Ovf ELSE Chk(x * y, U16)
Add8(x, y) == IF x = Ovf \/ y = Ovf THEN Ovf ELSE Chk(x + y, U8)
\* i16 arithmetic
ChkI16(x) ==
    IF x > I16Max \/ x < I16Min
    THEN (IF build = "debug" THEN Ovf ELSE ((x - I16Min) % U16) + I16Min)
    ELSE x
AddI16(x, y) == IF x = Ovf \/ y = Ovf THEN Ovf ELSE ChkI16(x + y)
\* `v as i16` of a u16 and `v as u16` of an i16: casts never panic
AsI16(v) == IF v > I16Max THEN v - U16 ELSE v
AsU16(v) == v % U16
AnyOvf(vs) == \E k \in 1..Len(vs) : vs[k] = Ovf

(***************************************************************************)
(* Bus primitives                                                          *)
(***************************************************************************)
SetupNs == 10
HoldNs == 160
ReadSetupNs == 40
ReadHoldNs == 20

write_command(cmd) ==
    << Pin("a0", 1), BusW(cmd), DelayNs(SetupNs), Pin("wr", 0), DelayNs(HoldNs),
       Pin("wr", 1), Ret("write_command") >>

\* write_data with the strobe asserted before the byte is on the bus
write_data_strobe_first(byte) ==
    << Pin("a0", 0), Pin("wr", 0), BusW(byte), DelayNs(SetupNs), DelayNs(HoldNs),
       Pin("wr", 1), Ret("write_data") >>

write_data(byte) ==
    << Pin("a0", 0), BusW(byte), DelayNs(SetupNs), Pin("wr", 0), DelayNs(HoldNs),
       Pin("wr", 1), Ret("write_data") >>

\* read_data with register-select at the level of a data write
read_data_rs_low ==
    << SetIn, Pin("a0", 0), Pin("rd", 0), DelayNs(ReadSetupNs), BusR,
       DelayNs(ReadHoldNs), Pin("rd", 1), SetOut, Ret("read_data") >>

\* `self.data.read()?` returns from read_data at once when the read fails
read_data ==
    << SetIn, Pin("a0", 1), Pin("rd", 0), DelayNs(ReadSetupNs), BusR,
       DelayNs(ReadHoldNs), Pin("rd", 1), SetOut, Ret("read_data") >>

\* set_cursor_address sending the high byte first
set_cursor_address_high_first(address) ==
    << Call("write_command", <<Csrw>>),
       Call("write_data", <<address \div 256>>),
       Call("write_data", <<address % 256>>),
       Ret("set_cursor_address") >>

set_cursor_address(address) ==
    << Call("write_command", <<Csrw>>),
       Call("write_data", <<address % 256>>),
       Call("write_data", <<address \div 256>>),
       Ret("set_cursor_address") >>

(***************************************************************************)
(* Driver functions                                                        *)
(***************************************************************************)
ResetLowMs == 10
ResetHighMs == 3

hardware_reset ==
    << Pin("res", 0), DelayMs(ResetLowMs), Pin("res", 1), DelayMs(ResetHighMs),
       Ret("hardware_reset") >>

\* the parameter bytes with the address pitch's high byte equal to CR
SystemSetParams_pitch_cr ==
    LET fx == Chk(config.font_width - 1, U8)
        fy == Chk(config.font_height - 1, U8)
        chars_per_line == config.screen_width \div config.font_width
        bytes_per_char == BytesPerChar(config.font_width, build)
        cr == Mul16(chars_per_line, bytes_per_char)
        lf == Chk(config.screen_height - 1, U16)
    IN
    IF AnyOvf(<<fx, fy, bytes_per_char, cr, lf>>) THEN <<Ovf>>
    ELSE << 48, Add8(128, fx), fy, cr % U8, Add8(cr % U8, 4), lf % U8, cr % U8, cr % U8 >>

\* the eight parameter bytes of SystemSet
SystemSetParams ==
    LET fx == Chk(config.font_width - 1, U8)
        fy == Chk(config.font_height - 1, U8)
        chars_per_line == config.screen_width \div config.font_width
        bytes_per_char == BytesPerChar(config.font_width, build)
        cr == Mul16(chars_per_line, bytes_per_char)
        lf == Chk(config.screen_height - 1, U16)
    IN
    IF AnyOvf(<<fx, fy, bytes_per_char, cr, lf>>) THEN <<Ovf>>
    ELSE << 48, Add8(128, fx), fy, cr % U8, Add8(cr % U8, 4), lf % U8, cr % U8, 0 >>

initialize ==
    << Call("write_command", <<SystemSet>>) >>
    \o (IF config.font_width = 0 \/ AnyOvf(SystemSetParams) THEN << PanicI >>
        ELSE << Bytes(SystemSetParams), Ret("initialize") >>)

configure_layers ==
    << Call("write_command", <<Scroll>>),
       Bytes(<< config.text_layer_start % 256,
                config.text_layer_start \div 256,
                config.screen_height % U8,
                config.graphics_layer_start % 256,
                config.graphics_layer_start \div 256,
                config.screen_height % U8 >>),
       Ret("configure_layers") >>

select_layer(layer) ==
    LET address == IF layer = "Text" THEN config.text_layer_start
                   ELSE config.graphics_layer_start
    IN << Call("set_cursor_address", <<address>>), Ret("select_layer") >>

\* `let x = 0x04B0; for _ in x..x*20`
ClearFrom == 1200
ClearFactor == 20

clear_display ==
    LET total_bytes == Mul16(config.screen_width \div 8, config.screen_height) IN
    IF total_bytes = Ovf THEN << PanicI >>
    ELSE
    << Call("write_command", <<Csrw>>),
       Call("write_data", <<0>>),
       Call("write_data", <<0>>),
       Call("write_command", <<CsrDirRight>>),
       Call("write_command", <<Mwrite>>),
       Fill(0, total_bytes),
       Fill(0, ClearFrom * ClearFactor - ClearFrom),
       Ret("clear_display") >>

write_text(text) ==
    << Call("select_layer", <<"Text">>),
       Call("write_command", <<Mwrite>>),
       Bytes(text),
       Ret("write_text") >>

\* the text address taken in pixel bytes: x / 8 for the character column
TextAddr_by_eight(x, y) ==
    LET chars_per_line == config.screen_width \div config.font_width
        char_x == x \div 8
        char_y == y \div config.font_height
    IN Add16(Add16(config.text_layer_start, Mul16(char_y, chars_per_line)), char_x)

TextAddr(x, y) ==
    LET chars_per_line == config.screen_width \div config.font_width
        char_x == x \div config.font_width
        char_y == y \div config.font_height
    IN Add16(Add16(config.text_layer_start, Mul16(char_y, chars_per_line)), char_x)

write_text_at(text, x, y) ==
    IF config.font_width = 0 \/ config.font_height = 0 \/ TextAddr(x, y) = Ovf
    THEN << PanicI >>
    ELSE
    << Call("set_cursor_address", <<TextAddr(x, y)>>),
       Call("write_command", <<Mwrite>>),
       Bytes(text),
       Ret("write_text_at") >>

enable_display ==
    << Call("write_command", <<HdotScr>>),
       Call("write_data", <<0>>),
       Call("write_command", <<DisplayOff>>),
       Call("write_data", <<63>>),
       Call("write_command", <<Csrw>>),
       Call("write_data", <<0>>),
       Call("write_data", <<0>>),
       Call("write_command", <<CsrForm>>),
       Call("write_data", <<4>>),
       Call("write_data", <<134>>),
       Call("write_command", <<Ovlay>>),
       Call("write_data", <<0>>),
       Call("write_command", <<DisplayOn>>),
       Ret("enable_display") >>

\* let bit_mask = 1 << 0x07 - (x % 8)
PixelMask(x) == 2 ^ (7 - (x % 8))

\* let byte_addr = graphics_layer_start + (y * bytes_per_line) + (x / 8), in u16
PixelAddr(x, y) ==
    LET bytes_per_line == config.screen_width \div 8 IN
    Add16(Add16(config.graphics_layer_start, Mul16(y, bytes_per_line)), x \div 8)

\* set_pixel without the second set_cursor_address
set_pixel_no_rewind(x, y) ==
    IF PixelAddr(x, y) = Ovf THEN << PanicI >>
    ELSE
    << Call("set_cursor_address", <<PixelAddr(x, y)>>),
       Call("write_command", <<Mread>>),
       Call("read_data", <<>>),
       I("unwrap_or", 0, 0),
       Call("write_command", <<Mwrite>>),
       I("call_new_data", "write_data", PixelMask(x)),
       Ret("set_pixel") >>

set_pixel(x, y) ==
    IF PixelAddr(x, y) = Ovf THEN << PanicI >>
    ELSE
    << Call("set_cursor_address", <<PixelAddr(x, y)>>),
       Call("write_command", <<Mread>>),
       Call("read_data", <<>>),
       I("unwrap_or", 0, 0),
       Call("set_cursor_address", <<PixelAddr(x, y)>>),
       Call("write_command", <<Mwrite>>),
       I("call_new_data", "write_data", PixelMask(x)),
       Ret("set_pixel") >>

\* the locals of draw_line before its loop: <<dx, sx, dy, sy, err, x, y>>
LineSetup(x0, y0, x1, y1) ==
    LET ax == AddI16(AsI16(x1), - AsI16(x0))
        ay == AddI16(AsI16(y1), - AsI16(y0))
        dx == IF ax = Ovf THEN Ovf ELSE IF ax < 0 THEN ChkI16(- ax) ELSE ax
        sx == IF x0 < x1 THEN 1 ELSE -1
        ady == IF ay = Ovf THEN Ovf ELSE IF ay < 0 THEN ChkI16(- ay) ELSE ay
        dy == IF ady = Ovf THEN Ovf ELSE ChkI16(- ady)
        sy == IF y0 < y1 THEN 1 ELSE -1
        err == AddI16(dx, dy)
    IN << dx, sx, dy, sy, err, AsI16(x0), AsI16(y0) >>

\* a pass of the loop that leaves `err += dx` out
LineStep_no_err_dx(x, y, err, dx, sx, dy, sy, x1, y1) ==
    IF x = AsI16(x1) /\ y = AsI16(y1) THEN << >>
    ELSE
    LET e2 == ChkI16(2 * err)
        goX == e2 # Ovf /\ e2 >= dy
        errA == IF goX THEN AddI16(err, dy) ELSE err
        xA == IF goX THEN AddI16(x, sx) ELSE x
        goY == e2 # Ovf /\ e2 <= dx
        yB == IF goY THEN AddI16(y, sy) ELSE y
    IN IF e2 = Ovf THEN << Ovf, Ovf, Ovf >> ELSE << xA, yB, errA >>

\* one pass of the loop of draw_line after its set_pixel: <<x, y, err>>,
\* <<>> at the break
LineStep(x, y, err, dx, sx, dy, sy, x1, y1) ==
    IF x = AsI16(x1) /\ y = AsI16(y1) THEN << >>
    ELSE
    LET e2 == ChkI16(2 * err)
        goX == e2 # Ovf /\ e2 >= dy
        errA == IF goX THEN AddI16(err, dy) ELSE err
        xA == IF goX THEN AddI16(x, sx) ELSE x
        goY == e2 # Ovf /\ e2 <= dx
        errB == IF goY THEN AddI16(errA, dx) ELSE errA
        yB == IF goY THEN AddI16(y, sy) ELSE y
    IN IF e2 = Ovf THEN << Ovf, Ovf, Ovf >> ELSE << xA, yB, errB >>

draw_line(x0, y0, x1, y1) ==
    LET l == LineSetup(x0, y0, x1, y1) IN
    IF AnyOvf(l) THEN << PanicI >>
    ELSE << I("line", << l[6], l[7], l[5] >>, << l[1], l[2], l[3], l[4], x1, y1 >>),
            Ret("draw_line") >>

\* LcdDisplay::draw_rectangle: the corners in order, the two horizontal edges
\* over start_x..=end_x, then the two vertical edges over start_y + 1..end_y
draw_rectangle(x0, y0, x1, y1) ==
    LET start_x == IF x0 <= x1 THEN x0 ELSE x1
        end_x == IF x0 <= x1 THEN x1 ELSE x0
        start_y == IF y0 <= y1 THEN y0 ELSE y1
        end_y == IF y0 <= y1 THEN y1 ELSE y0
        r == << start_x, end_x, start_y, end_y >>
    IN << I("rect_h", start_x, r), I("rect_v_from", 0, r), Ret("draw_rectangle") >>

HelloText == << 72, 69, 76, 76, 32, 87, 79, 82, 76, 68 >>
DiagFrom == 40
DiagTo == 200

\* new enabling the display before clearing the memory
new_enable_before_clear ==
    << Pin("cs", 0),
       Call("hardware_reset", <<>>),
       Call("initialize", <<>>),
       Call("configure_layers", <<>>),
       Call("enable_display", <<>>),
       Call("clear_display", <<>>),
       Call("write_command", <<CsrDirRight>>),
       Call("write_command", <<Mwrite>>),
       Bytes(HelloText),
       Call("select_layer", <<"Graphics">>),
       Call("draw_line", <<100, 50, 200, 100>>),
       I("range_pixel", DiagFrom, DiagTo),
       Ret("new") >>

new ==
    << Pin("cs", 0),
       Call("hardware_reset", <<>>),
       Call("initialize", <<>>),
       Call("configure_layers", <<>>),
       Call("clear_display", <<>>),
       Call("enable_display", <<>>),
       Call("write_command", <<CsrDirRight>>),
       Call("write_command", <<Mwrite>>),
       Bytes(HelloText),
       Call("select_layer", <<"Graphics">>),
       Call("draw_line", <<100, 50, 200, 100>>),
       I("range_pixel", DiagFrom, DiagTo),
       Ret("new") >>

Body(fn, args) ==
    CASE fn = "write_command" -> write_command(args[1])
      [] fn = "write_data" -> write_data(args[1])
      [] fn = "read_data" -> read_data
      [] fn = "set_cursor_address" -> set_cursor_address(args[1])
      [] fn = "hardware_reset" -> hardware_reset
      [] fn = "initialize" -> initialize
      [] fn = "configure_layers" -> configure_layers
      [] fn = "select_layer" -> select_layer(args[1])
      [] fn = "clear_display" -> clear_display
      [] fn = "write_text" -> write_text(args[1])
      [] fn = "write_text_at" -> write_text_at(args[1], args[2], args[3])
      [] fn = "enable_display" -> enable_display
      [] fn = "set_pixel" -> set_pixel(args[1], args[2])
      [] fn = "draw_line" -> draw_line(args[1], args[2], args[3], args[4])
      [] fn = "draw_rectangle" -> draw_rectangle(args[1], args[2], args[3], args[4])
      [] fn = "new" -> new

(***************************************************************************)
(* The controller chip on the other side of the bus.  It latches a byte at *)
(* the rising edge of the write strobe (a command when register-select is  *)
(* high, a parameter or data byte when it is low), drives a byte while the *)
(* read strobe is low, and moves its cursor by one after every memory      *)
(* access.  The data pins are pull-up inputs: they read 255 when the chip  *)
(* does not drive them.                                                    *)
(***************************************************************************)
Floating == U8 - 1

MemAt(m, a) == IF a \in DOMAIN m THEN m[a] ELSE 0

MemPut(m, a, v) ==
    IF v = 0 THEN [x \in DOMAIN m \ {a} |-> m[x]]
    ELSE [x \in DOMAIN m \cup {a} |-> IF x = a THEN v ELSE m[x]]

\* n data bytes v written from address `from` on, the cursor moving by one
MemFill(m, from, v, n) ==
    LET hit(x) == ((x - from) % U16) < n IN
    IF v = 0 THEN [x \in {y \in DOMAIN m : ~ hit(y)} |-> m[x]]
    ELSE [x \in DOMAIN m \cup {(from + k) % U16 : k \in 0..(n - 1)} |->
             IF hit(x) THEN v ELSE m[x]]

\* the chip latches `byte` with register-select at `rs`: <<dev, mem>>
DevLatch(d, m, rs, byte) ==
    IF rs = 1 THEN << [d EXCEPT !.cmd = byte, !.np = 0], m >>
    ELSE IF d.cmd = Csrw /\ d.np = 0
    THEN << [d EXCEPT !.cursor = (d.cursor \div 256) * 256 + byte, !.np = 1], m >>
    ELSE IF d.cmd = Csrw /\ d.np = 1
    THEN << [d EXCEPT !.cursor = byte * 256 + (d.cursor % 256), !.np = 2], m >>
    ELSE IF d.cmd = Mwrite
    THEN << [d EXCEPT !.cursor = (d.cursor + 1) % U16], MemPut(m, d.cursor, byte) >>
    ELSE << [d EXCEPT !.np = IF d.np < 8 THEN d.np + 1 ELSE d.np], m >>

\* the chip latches the data byte `byte` n times in a row
DevLatchN(d, m, byte, n) ==
    IF d.cmd = Mwrite
    THEN << [d EXCEPT !.cursor = (d.cursor + n) % U16], MemFill(m, d.cursor, byte, n) >>
    ELSE << d, m >>

\* the read strobe falls: the chip drives the byte under the cursor
DevDrive(d, m, rs) ==
    IF rs = 1 /\ d.cmd = Mread
    THEN [d EXCEPT !.out = MemAt(m, d.cursor), !.cursor = (d.cursor + 1) % U16]
    ELSE d

DevRelease(d) == [d EXCEPT !.out = Floating]

DevReset(d) == [d EXCEPT !.cmd = 0, !.np = 0]

\* <<x, y, err>> of draw_line after k more passes of its loop from s, << >>
\* once the loop has been left (a singleton set binds the value half way)
RECURSIVE LineAfter(_, _, _)
LineAfter(s, p, k) ==
    IF k = 0 \/ s = << >> THEN s
    ELSE IF k = 1
    THEN LineStep(s[1], s[2], s[3], p[1], p[2], p[3], p[4], p[5], p[6])
    ELSE CHOOSE r \in { LineAfter(h, p, k - (k \div 2)) :
                        h \in { LineAfter(s, p, k \div 2) } } : TRUE

\* the pixels draw_line sets, in order; the loop makes dx - dy passes at most
LinePixels(s, p) ==
    LET n == Cardinality({ k \in 0..(p[1] - p[3]) : LineAfter(s, p, k) # << >> }) IN
    [k \in 1..n |-> << AsU16(LineAfter(s, p, k - 1)[1]), AsU16(LineAfter(s, p, k - 1)[2]) >>]

\* the pixels RA8835A::new sets, in order: the line, then the diagonal
NewPixels ==
    CHOOSE ps \in
        { LinePixels(<< l[6], l[7], l[5] >>, << l[1], l[2], l[3], l[4], 200, 100 >>)
          \o [k \in 1..(DiagTo - DiagFrom) |-> << DiagFrom + k - 1, DiagFrom + k - 1 >>] :
          l \in { LineSetup(100, 50, 200, 100) } } : TRUE

\* byte b with the bits of the masks set
OrMasks(b, masks) ==
    LET bit(k) == IF Bit(b, k) = 1 \/ 2 ^ k \in masks THEN 2 ^ k ELSE 0 IN
    bit(0) + bit(1) + bit(2) + bit(3) + bit(4) + bit(5) + bit(6) + bit(7)

\* memory m after set_pixel on every pixel of ps (`at` is the list of their
\* byte addresses, bound once)
MemSetPixels(m, ps) ==
    CHOOSE r \in
        { [a \in DOMAIN m \cup { at[k] : k \in DOMAIN at } |->
              OrMasks(MemAt(m, a),
                      { PixelMask(ps[k][1]) : k \in { j \in DOMAIN at : at[j] = a } })] :
          at \in { << >> \o [k \in 1..Len(ps) |-> PixelAddr(ps[k][1], ps[k][2])] } } : TRUE

\* memory m after the nonzero bytes bs are written from address `from` on
MemPutBytes(m, from, bs) ==
    LET idx(a) == ((a - from) % U16) + 1 IN
    [a \in DOMAIN m \cup { (from + k - 1) % U16 : k \in 1..Len(bs) } |->
        IF idx(a) <= Len(bs) THEN bs[idx(a)] ELSE m[a]]

\* the controller memory after RA8835A::new, from the memory m at power-on:
\* cleared from 0 on, the text at 0 (where enable_display leaves the cursor),
\* then the pixels
ConstructedMem(m) ==
    LET total_bytes == (config.screen_width \div 8) * config.screen_height
        cleared == MemFill(m, 0, 0, total_bytes + ClearFrom * ClearFactor - ClearFrom)
    IN CHOOSE r \in { MemSetPixels(t, ps) :
                      t \in { MemPutBytes(cleared, 0, HelloText) },
                      ps \in { NewPixels } } : TRUE

(***************************************************************************)
(* Steps                                                                   *)
(***************************************************************************)
Prims == {"write_command", "write_data", "read_data"}

Running == stack # << >>
Top == Head(stack)
Rest == Tail(stack)
InPrim == prim.fn \in Prims /\ ~ prim.done

Ev(e, v) == [e |-> e, v |-> v]
L(k, a, b, n) == [k |-> k, a |-> a, b |-> b, n |-> n]

Noted(e, v) == IF InPrim THEN Append(ev, Ev(e, v)) ELSE ev

\* a call reaches the head of the continuation: the body replaces it
Enter ==
    /\ Running
    /\ Top.i \in {"call", "call_new_data"}
    /\ LET fn == Top.a
           args == IF Top.i = "call_new_data" THEN <<BitOr(current, Top.b)>> ELSE Top.b
       IN /\ stack' = Body(fn, args) \o Rest
          /\ IF fn \in Prims
             THEN /\ prim' = [fn |-> fn,
                              arg |-> IF fn = "read_data" THEN 0 ELSE args[1],
                              done |-> FALSE]
                  /\ ev' = << >>
             ELSE UNCHANGED <<prim, ev>>
          /\ plotted' = IF fn = "set_pixel" THEN Append(plotted, <<args[1], args[2]>>)
                        ELSE plotted
    /\ UNCHANGED <<build, geom, result, config, a0, wr, rd, cs, res, is_output, data,
                   dev, mem, op, opargs, ret, rres, current, log, reads, faults, nops>>

\* a loop reaches the head of the continuation: one pass, then the loop again
Loop ==
    /\ Running
    /\ Top.i \in {"bytes", "fill", "range_pixel", "line", "line_step",
                 "rect_h", "rect_v_from", "rect_v"}
    /\ stack' =
         CASE Top.i = "bytes" ->
                IF Top.a = << >> THEN Rest
                ELSE << Call("write_data", <<Head(Top.a)>>), Bytes(Tail(Top.a)) >> \o Rest
           [] Top.i = "fill" ->
                IF Top.b = 0 THEN Rest
                ELSE << Call("write_data", <<Top.a>>), FillRest(Top.a, Top.b - 1) >> \o Rest
           [] Top.i = "range_pixel" ->
                IF Top.a >= Top.b THEN Rest
                ELSE << Call("set_pixel", <<Top.a, Top.a>>),
                        I("range_pixel", Top.a + 1, Top.b) >> \o Rest
           [] Top.i = "line" ->
                << Call("set_pixel", <<AsU16(Top.a[1]), AsU16(Top.a[2])>>),
                   I("line_step", Top.a, Top.b) >> \o Rest
           [] Top.i = "line_step" ->
                LET n == LineStep(Top.a[1], Top.a[2], Top.a[3],
                                  Top.b[1], Top.b[2], Top.b[3], Top.b[4], Top.b[5], Top.b[6])
                IN IF n = << >> THEN Rest
                   ELSE IF AnyOvf(n) THEN << PanicI >>
                   ELSE << I("line", n, Top.b) >> \o Rest
           [] Top.i = "rect_h" ->
                IF Top.a > Top.b[2] THEN Rest
                ELSE << Call("set_pixel", <<Top.a, Top.b[3], TRUE>>),
                        Call("set_pixel", <<Top.a, Top.b[4], TRUE>>),
                        I("rect_h", Top.a + 1, Top.b) >> \o Rest
           [] Top.i = "rect_v_from" ->
                IF Add16(Top.b[3], 1) = Ovf THEN << PanicI >>
                ELSE << I("rect_v", Add16(Top.b[3], 1), Top.b) >> \o Rest
           [] Top.i = "rect_v" ->
                IF Top.a >= Top.b[4] THEN Rest
                ELSE << Call("set_pixel", <<Top.b[1], Top.a, TRUE>>),
                        Call("set_pixel", <<Top.b[2], Top.a, TRUE>>),
                        I("rect_v", Top.a + 1, Top.b) >> \o Rest
    /\ UNCHANGED <<build, geom, result, config, a0, wr, rd, cs, res, is_output, data,
                   dev, mem, op, opargs, ret, rres, current, prim, ev, log, reads, faults, nops, plotted>>

\* the passes of `for _ in 0..n { self.write_data(v) }` after the first: every
\* one of them repeats the pin and bus states of the first, and the chip
\* latches n more bytes
FillMore ==
    /\ Running
    /\ Top.i = "fill_rest"
    /\ stack' = Rest
    /\ IF Top.b = 0 THEN UNCHANGED <<dev, mem, log>>
       ELSE /\ log' = Append(log, L("w", a0, data, Top.b))
            /\ IF cs = 0
               THEN /\ dev' = DevLatchN(dev, mem, Top.a, Top.b)[1]
                    /\ mem' = DevLatchN(dev, mem, Top.a, Top.b)[2]
               ELSE UNCHANGED <<dev, mem>>
    /\ UNCHANGED <<build, geom, result, config, a0, wr, rd, cs, res, is_output, data,
                   op, opargs, ret, rres, current, prim, ev, reads, faults, nops, plotted>>

\* OutputPin::set_high / set_low on one of the five control lines
SetPin ==
    /\ Running
    /\ Top.i = "pin"
    /\ stack' = Rest
    /\ a0' = IF Top.a = "a0" THEN Top.b ELSE a0
    /\ wr' = IF Top.a = "wr" THEN Top.b ELSE wr
    /\ rd' = IF Top.a = "rd" THEN Top.b ELSE rd
    /\ cs' = IF Top.a = "cs" THEN Top.b ELSE cs
    /\ res' = IF Top.a = "res" THEN Top.b ELSE res
    /\ ev' = Noted(Top.a, Top.b)
    /\ log' = IF Top.a = "wr" /\ wr = 0 /\ Top.b = 1 THEN Append(log, L("w", a0, data, 1))
              ELSE IF Top.a \in {"cs", "res"} THEN Append(log, L(Top.a, Top.b, 0, 1))
              ELSE log
    /\ IF Top.a = "wr" /\ wr = 0 /\ Top.b = 1 /\ cs = 0
       THEN /\ dev' = DevLatch(dev, mem, a0, data)[1]
            /\ mem' = DevLatch(dev, mem, a0, data)[2]
       ELSE IF Top.a = "rd" /\ rd = 1 /\ Top.b = 0 /\ cs = 0
       THEN dev' = DevDrive(dev, mem, a0) /\ mem' = mem
       ELSE IF Top.a = "rd" /\ rd = 0 /\ Top.b = 1
       THEN dev' = DevRelease(dev) /\ mem' = mem
       ELSE IF Top.a = "res" /\ Top.b = 0
       THEN dev' = DevReset(dev) /\ mem' = mem
       ELSE UNCHANGED <<dev, mem>>
    /\ UNCHANGED <<build, geom, result, config, is_output, data, op, opargs, ret, rres,
                   current, prim, reads, faults, nops, plotted>>

\* DataBus::write
BusWrite ==
    /\ Running
    /\ Top.i = "write"
    /\ stack' = Rest
    /\ is_output' = TRUE
    /\ data' = Top.a
    /\ ev' = Noted("write", Top.a)
    /\ UNCHANGED <<build, geom, result, config, a0, wr, rd, cs, res, dev, mem, op, opargs, ret,
                   rres, current, prim, log, reads, faults, nops, plotted>>

\* DataBus::read returning Ok
BusReadOk ==
    /\ Running
    /\ Top.i = "read"
    /\ stack' = Rest
    /\ is_output' = FALSE
    /\ rres' = [ok |-> TRUE, v |-> dev.out]
    /\ ev' = Noted("read", dev.out)
    /\ log' = Append(log, L("r", a0, dev.out, 1))
    /\ reads' = reads + 1
    /\ UNCHANGED <<build, geom, result, config, a0, wr, rd, cs, res, data, dev, mem, op, opargs,
                   ret, current, prim, faults, nops, plotted>>

\* DataBus::read returning Err: `?` leaves read_data at once
BusReadErr ==
    /\ Running
    /\ Top.i = "read"
    /\ faults < MaxFaults
    /\ reads < FaultWindow
    /\ stack' = SubSeq(stack, CHOOSE k \in 1..Len(stack) :
                                  /\ IsRet(stack[k], "read_data")
                                  /\ \A j \in 1..(k - 1) : ~ IsRet(stack[j], "read_data"),
                       Len(stack))
    /\ is_output' = FALSE
    /\ rres' = [ok |-> FALSE, v |-> 0]
    /\ ev' = Noted("read_err", 0)
    /\ log' = Append(log, L("rfail", a0, 0, 1))
    /\ reads' = reads + 1
    /\ faults' = faults + 1
    /\ UNCHANGED <<build, geom, result, config, a0, wr, rd, cs, res, data, dev, mem, op, opargs,
                   ret, current, prim, nops, plotted>>

\* DataBus::set_input / set_output
SetDirection ==
    /\ Running
    /\ Top.i \in {"set_input", "set_output"}
    /\ stack' = Rest
    /\ is_output' = (Top.i = "set_output")
    /\ ev' = Noted(Top.i, 0)
    /\ UNCHANGED <<build, geom, result, config, a0, wr, rd, cs, res, data, dev, mem, op, opargs,
                   ret, rres, current, prim, log, reads, faults, nops, plotted>>

\* DelayNs::delay_ns / delay_ms
Delay ==
    /\ Running
    /\ Top.i \in {"delay_ns", "delay_ms"}
    /\ stack' = Rest
    /\ ev' = Noted(Top.i, Top.a)
    /\ log' = IF Top.i = "delay_ms" THEN Append(log, L("delay_ms", Top.a, 0, 1)) ELSE log
    /\ UNCHANGED <<build, geom, result, config, a0, wr, rd, cs, res, is_output, data, dev,
                   mem, op, opargs, ret, rres, current, prim, reads, faults, nops, plotted>>

\* let current = self.read_data().unwrap_or(0)
UnwrapOr ==
    /\ Running
    /\ Top.i = "unwrap_or"
    /\ stack' = Rest
    /\ current' = IF rres.ok THEN rres.v ELSE Top.a
    /\ UNCHANGED <<build, geom, result, config, a0, wr, rd, cs, res, is_output, data, dev,
                   mem, op, opargs, ret, rres, prim, ev, log, reads, faults, nops, plotted>>

\* a function returns; the operation returns when nothing is left to do
Return ==
    /\ Running
    /\ Top.i = "ret"
    /\ stack' = Rest
    /\ prim' = IF Top.a \in Prims THEN [prim EXCEPT !.done = TRUE] ELSE prim
    /\ ret' = IF Rest # << >> THEN ret
              ELSE IF Top.a = "read_data" /\ ~ rres.ok THEN "Err"
              ELSE "Ok"
    /\ UNCHANGED <<build, geom, result, config, a0, wr, rd, cs, res, is_output, data, dev,
                   mem, op, opargs, rres, current, ev, log, reads, faults, nops, plotted>>

\* an arithmetic overflow in a build that checks: panic_halt
Panic ==
    /\ Running
    /\ Top.i = "panic"
    /\ stack' = << >>
    /\ ret' = "Panic"
    /\ UNCHANGED <<build, geom, result, config, a0, wr, rd, cs, res, is_output, data, dev,
                   mem, op, opargs, rres, current, prim, ev, log, reads, faults, nops, plotted>>

(***************************************************************************)
(* Operations                                                              *)
(***************************************************************************)
Begin(name, fn, a) ==
    /\ ~ Running
    /\ ret # "Panic"
    /\ nops < MaxOps
    /\ op' = name
    /\ opargs' = a
    /\ stack' = << Call(fn, a) >>
    /\ ret' = "None"
    /\ log' = << >>
    /\ reads' = 0
    /\ nops' = nops + 1
    /\ plotted' = << >>
    /\ UNCHANGED <<build, geom, result, config, a0, wr, rd, cs, res, is_output, data, dev,
                   mem, rres, current, prim, ev, faults>>

\* RA8835A::new
New == op = "off" /\ Begin("new", "new", << >>)

\* set_pixel as the example calls it, self.driver.set_pixel(x, y, color): the
\* driver's set_pixel takes x and y only, the colour reaches nothing
SetPixel ==
    op # "off" /\ \E x \in PixelXs, y \in PixelYs, color \in Colors :
        Begin("set_pixel", "set_pixel", <<x, y, color>>)

WriteText == op # "off" /\ \E t \in Texts : Begin("write_text", "write_text", <<t>>)

WriteTextAt ==
    op # "off" /\ \E t \in Texts, x \in TextXs, y \in TextYs :
        Begin("write_text_at", "write_text_at", <<t, x, y>>)

ClearDisplay == op # "off" /\ Begin("clear_display", "clear_display", << >>)

ReadData == op # "off" /\ Begin("read_data", "read_data", << >>)

SetCursorAddress ==
    op # "off" /\ \E addr \in Addresses :
        Begin("set_cursor_address", "set_cursor_address", <<addr>>)

WriteCommand ==
    op # "off" /\ \E c \in {CsrDirRight, Mread} :
        Begin("write_command", "write_command", <<c>>)

WriteData == op # "off" /\ \E b \in DataBytes : Begin("write_data", "write_data", <<b>>)

(***************************************************************************)
(* Specifications                                                          *)
(***************************************************************************)
NoPrim == [fn |-> "none", arg |-> 0, done |-> TRUE]

\* the driver before RA8835A::new: the pins as main() makes them, the bus as
\* DataBus::new leaves it
PowerOn ==
    /\ geom \in PowerOnGeometries
    /\ result = Config_new(geom[1], geom[2], geom[3], geom[4], build)
    /\ result.tag = "Ok"
    /\ config = result.cfg
    /\ a0 = 1 /\ wr = 1 /\ rd = 1 /\ cs = 1 /\ res = 1
    /\ is_output = TRUE
    /\ data = 0
    /\ dev = [cmd |-> 0, np |-> 0, cursor |-> 0, out |-> Floating]
    /\ op = "off"

\* the driver after RA8835A::new has returned
Constructed ==
    /\ geom \in Geometries
    /\ result = Config_new(geom[1], geom[2], geom[3], geom[4], build)
    /\ result.tag = "Ok"
    /\ config = result.cfg
    /\ a0 = 0 /\ wr = 1 /\ rd = 1 /\ cs = 0 /\ res = 1
    /\ is_output = TRUE
    /\ data = PixelMask(DiagTo - 1)
    /\ dev = [cmd |-> Mwrite, np |-> 0,
              cursor |-> (PixelAddr(DiagTo - 1, DiagTo - 1) + 1) % U16, out |-> Floating]
    /\ op = "idle"

Init ==
    /\ build \in Builds
    /\ \/ PowerOn /\ mem = EmptyMem
       \/ Constructed /\ \E m \in PowerOnMems : mem = ConstructedMem(m)
    /\ stack = << >>
    /\ opargs = << >>
    /\ ret = "None"
    /\ rres = [ok |-> TRUE, v |-> 0]
    /\ current = 0
    /\ prim = NoPrim
    /\ ev = << >>
    /\ log = << >>
    /\ reads = 0
    /\ faults = 0
    /\ nops = 0
    /\ plotted = << >>

Next ==
    \/ New
    \/ SetPixel
    \/ WriteText
    \/ WriteTextAt
    \/ ClearDisplay
    \/ ReadData
    \/ SetCursorAddress
    \/ WriteCommand
    \/ WriteData
    \/ Enter
    \/ Loop
    \/ FillMore
    \/ SetPin
    \/ BusWrite
    \/ BusReadOk
    \/ BusReadErr
    \/ SetDirection
    \/ Delay
    \/ UnwrapOr
    \/ Return
    \/ Panic

Spec == Init /\ [][Next]_vars

\* LcdDisplay::draw_line and LcdDisplay::draw_rectangle
DrawLine == op # "off" /\ \E l \in Lines : Begin("draw_line", "draw_line", l)

DrawRectangle ==
    op # "off" /\ \E r \in Rectangles : Begin("draw_rectangle", "draw_rectangle", r)

\* the display of the example after LcdDisplay::new: Config::new(8, 8, 320, 240)
\* and a constructed driver on a memory that was clear at power-on
DisplayGeometry == <<8, 8, 320, 240>>

InitDraw ==
    /\ build \in Builds
    /\ geom = DisplayGeometry
    /\ Constructed
    /\ mem = ConstructedMem(EmptyMem)
    /\ stack = << >>
    /\ opargs = << >>
    /\ ret = "None"
    /\ rres = [ok |-> TRUE, v |-> 0]
    /\ current = 0
    /\ prim = NoPrim
    /\ ev = << >>
    /\ log = << >>
    /\ reads = 0
    /\ faults = 0
    /\ nops = 0
    /\ plotted = << >>

NextDraw ==
    \/ DrawLine
    \/ DrawRectangle
    \/ Enter
    \/ Loop
    \/ SetPin
    \/ BusWrite
    \/ BusReadOk
    \/ BusReadErr
    \/ SetDirection
    \/ Delay
    \/ UnwrapOr
    \/ Return
    \/ Panic

SpecDraw == InitDraw /\ [][NextDraw]_vars

\* the Constructed initial states are the states RA8835A::new returns in:
\* when the constructor has run from PowerOn without a failed read, the pins,
\* the bus, the chip and its memory are those of Constructed
ConstructedIsNewResult ==
    (op = "new" /\ ~ Running /\ ret = "Ok" /\ faults = 0) =>
        /\ mem = ConstructedMem(EmptyMem)
        /\ a0 = 0 /\ wr = 1 /\ rd = 1 /\ cs = 0 /\ res = 1
        /\ is_output
        /\ data = PixelMask(DiagTo - 1)
        /\ dev = [cmd |-> Mwrite, np |-> 0,
                  cursor |-> (PixelAddr(DiagTo - 1, DiagTo - 1) + 1) % U16,
                  out |-> Floating]

\* Config::new applied to every combination of the arguments above, before
\* any driver exists
InitConfig ==
    /\ build \in Builds
    /\ geom \in FontWidths \X FontHeights \X ScreenWidths \X ScreenHeights
    /\ result = [tag |-> "None", cfg |-> NoConfig]
    /\ config = NoConfig
    /\ a0 = 1 /\ wr = 1 /\ rd = 1 /\ cs = 1 /\ res = 1
    /\ is_output = TRUE
    /\ data = 0
    /\ dev = [cmd |-> 0, np |-> 0, cursor |-> 0, out |-> Floating]
    /\ mem = EmptyMem
    /\ stack = << >>
    /\ op = "off"
    /\ opargs = << >>
    /\ ret = "None"
    /\ rres = [ok |-> TRUE, v |-> 0]
    /\ current = 0
    /\ prim = NoPrim
    /\ ev = << >>
    /\ log = << >>
    /\ reads = 0
    /\ faults = 0
    /\ nops = 0
    /\ plotted = << >>

ConfigNew ==
    /\ result.tag = "None"
    /\ result' = Config_new(geom[1], geom[2], geom[3], geom[4], build)
    /\ UNCHANGED <<build, geom>>
    /\ UNCHANGED drv

NextConfig == ConfigNew

SpecConfig == InitConfig /\ [][NextConfig]_vars

(***************************************************************************)
(* Claims about Config::new (specification SpecConfig)                     *)
(***************************************************************************)
Decided == result.tag # "None"

\* chars_per_line * bytes_per_char with bytes_per_char = ceil(font_width / 8),
\* as integers
TrueCr(fw, sw) == (sw \div fw) * ((fw + 7) \div 8)

\* C1: whenever font_width >= 1, font_height >= 1 and the true column register
\* value is at most 239, Config::new returns Ok with text_layer_start = 0 and
\* graphics_layer_start = chars_per_line * (screen_height / font_height) as an
\* integer, without wrap-around.
C1_LayerStartExact ==
    (Decided /\ geom[1] >= 1 /\ geom[2] >= 1 /\ TrueCr(geom[1], geom[3]) <= 239)
    => /\ result.tag = "Ok"
       /\ result.cfg.text_layer_start = 0
       /\ result.cfg.graphics_layer_start
            = (geom[3] \div geom[1]) * (geom[4] \div geom[2])

\* C2: whenever the true column register value exceeds 239, Config::new
\* returns the column-register error: never Ok, never a panic.
C2_CrErrorAlways ==
    (Decided /\ geom[1] >= 1 /\ TrueCr(geom[1], geom[3]) > 239)
    => result.tag = "Err"

(***************************************************************************)
(* Claims about the bus primitives (specification Spec)                    *)
(***************************************************************************)
Finished(name) == op = name /\ ~ Running /\ ret \in {"Ok", "Err"}

IsPrefix(s, t) == Len(s) <= Len(t) /\ \A k \in 1..Len(s) : s[k] = t[k]

\* the level each write primitive drives register-select to
CommandLevel == write_command(0)[1].b
DataLevel == write_data(0)[1].b

\* C3: set_cursor_address(addr) performs exactly three bus transfers, all
\* writes: the command byte Csrw with register-select at the command level,
\* then the data byte addr & 0xFF, then the data byte addr >> 8.
C3_CursorThreeTransfers ==
    op = "set_cursor_address" =>
        LET addr == opargs[1]
            want == << L("w", CommandLevel, 70, 1),
                       L("w", DataLevel, addr % 256, 1),
                       L("w", DataLevel, addr \div 256, 1) >>
        IN /\ IsPrefix(log, want)
           /\ Finished("set_cursor_address") => log = want
           /\ CommandLevel # DataLevel

C3_Witness ==
    /\ Finished("set_cursor_address")
    /\ opargs = <<4660>>
    /\ Len(log) = 3

\* C4: in every write_command and write_data the calls occur in the order
\* register-select (command level for write_command, the opposite level for
\* write_data), byte on the bus, a delay of at least 10 ns, write strobe low,
\* a delay of at least 150 ns, write strobe high; the strobe is low only
\* while the byte and register-select are in place, and it is high when the
\* primitive has returned.
C4_WriteOrderAndTiming ==
    prim.fn \in {"write_command", "write_data"} =>
        LET rs == IF prim.fn = "write_command" THEN 1 ELSE 0
            shape == << "a0", "write", "delay_ns", "wr", "delay_ns", "wr" >>
            n == Len(ev)
        IN /\ n <= 6
           /\ \A k \in 1..n : ev[k].e = shape[k]
           /\ n >= 1 => ev[1].v = rs
           /\ n >= 2 => ev[2].v = prim.arg
           /\ n >= 3 => ev[3].v >= 10
           /\ n >= 4 => ev[4].v = 0
           /\ n >= 5 => ev[5].v >= 150
           /\ n >= 6 => ev[6].v = 1
           /\ prim.done => n = 6 /\ wr = 1
           /\ wr = 0 => a0 = rs /\ data = prim.arg /\ n \in {4, 5}

C4_Witness ==
    /\ prim.fn = "write_data"
    /\ prim.done
    /\ prim.arg = 165
    /\ Len(ev) = 6

ReadShape ==
    << "set_input", "a0", "rd", "delay_ns", "read", "delay_ns", "rd", "set_output" >>

\* a read_data whose bus read succeeded has returned: its calls in order,
\* register-select driven to `level`, the sampled byte returned
ReadSequence(level) ==
    (prim.fn = "read_data" /\ prim.done /\ rres.ok) =>
        /\ Len(ev) = 8
        /\ \A k \in 1..8 : ev[k].e = ReadShape[k]
        /\ ev[2].v = level
        /\ ev[3].v = 0
        /\ ev[4].v > 0
        /\ ev[6].v > 0
        /\ ev[7].v = 1
        /\ rres.v = ev[5].v
        /\ is_output

\* C5 as claimed: a successful read_data switches the bus to input, drives
\* register-select to the level write_data drives it to, asserts the read
\* strobe, waits, samples, waits, deasserts the strobe, restores output, and
\* returns the sampled byte.
C5_ReadAtDataLevel == ReadSequence(DataLevel)

\* C5 as amended: the same sequence, with register-select driven high, the
\* level write_command drives it to and the opposite of write_data's level.
C5_ReadSequence == ReadSequence(CommandLevel) /\ CommandLevel = 1 /\ DataLevel = 0

C5_Witness ==
    /\ prim.fn = "read_data"
    /\ prim.done
    /\ rres.ok
    /\ rres.v = PixelMask(DiagFrom)

\* C6: whenever read_data has returned, with a byte or with an error, the bus
\* direction is output, and every write strobe is asserted with the bus in
\* output direction.
C6_OutputAfterRead ==
    /\ (prim.fn = "read_data" /\ prim.done) => is_output
    /\ wr = 0 => is_output

(***************************************************************************)
(* Claims about the constructor (specification Spec)                       *)
(***************************************************************************)
IsCommand(e) == e.k = "w" /\ e.a = CommandLevel
IsCmd(e, c) == IsCommand(e) /\ e.b = c
IsData(e) == e.k = "w" /\ e.a = DataLevel

\* the log up to the first DisplayOn command (all of it while there is none)
EnableEnd ==
    IF \E i \in 1..Len(log) : IsCmd(log[i], 89)
    THEN CHOOSE i \in 1..Len(log) :
            IsCmd(log[i], 89) /\ \A j \in 1..(i - 1) : ~ IsCmd(log[j], 89)
    ELSE Len(log)

\* the places of the command bytes in it, in order
CmdIdx == SelectSeq([i \in 1..EnableEnd |-> i], LAMBDA i : IsCommand(log[i]))

\* the commands of the stages system-set, layers, clear, enable
StageCmds == << 64, 68, 70, 76, 66, 90, 88, 70, 93, 91, 89 >>
\* the number of parameter bytes each takes (-1: any number of zero bytes)
StageParams == << 8, 6, 2, 0, -1, 1, 1, 2, 2, 1, 0 >>

\* C7: the constructor runs reset, system-set, layer configuration, clear and
\* enable strictly in this order, each complete before the next begins: the
\* reset line is low, >= 10 ms pass, it is high, >= 3 ms pass, all before
\* the first command byte; then SystemSet with 8 parameter bytes, Scroll
\* with its 6, Csrw 0 0, CsrDirRight, Mwrite with zero bytes only, then
\* HdotScr, DisplayOff, Csrw, CsrForm and Ovlay with their parameters and
\* DisplayOn as the last command.
C7_StagesInOrder ==
    op = "new" =>
        LET idx == CmdIdx
            nc == Len(idx)
            first == IF nc = 0 THEN Len(log) + 1 ELSE idx[1]
            hi(k) == IF k < nc THEN idx[k + 1] - 1 ELSE EnableEnd
        IN /\ \A j \in 1..(first - 1) : log[j].k \in {"cs", "res", "delay_ms"}
           /\ nc > 0 =>
                \E j \in 1..(first - 4) :
                    /\ log[j].k = "res" /\ log[j].a = 0
                    /\ log[j + 1].k = "delay_ms" /\ log[j + 1].a >= 10
                    /\ log[j + 2].k = "res" /\ log[j + 2].a = 1
                    /\ log[j + 3].k = "delay_ms" /\ log[j + 3].a >= 3
                    /\ j + 3 = first - 1
           /\ nc <= Len(StageCmds)
           /\ \A k \in 1..nc :
                /\ log[idx[k]].b = StageCmds[k]
                /\ \A j \in (idx[k] + 1)..hi(k) : IsData(log[j])
                /\ IF StageParams[k] < 0
                   THEN \A j \in (idx[k] + 1)..hi(k) : log[j].b = 0
                   ELSE /\ \A j \in (idx[k] + 1)..hi(k) : log[j].n = 1
                        /\ hi(k) - idx[k] <= StageParams[k]
                        /\ k < nc => hi(k) - idx[k] = StageParams[k]
           /\ (nc >= 3 /\ hi(3) - idx[3] = 2) =>
                log[idx[3] + 1].b = 0 /\ log[idx[3] + 2].b = 0
           /\ Finished("new") => nc = Len(StageCmds)

C7_Witness ==
    /\ op = "new"
    /\ Len(log) > 0
    /\ IsCmd(log[Len(log)], 89)
    /\ Len(CmdIdx) = 11

\* C8: once a bus read has failed in the constructor, the constructor makes
\* no further bus transfer and returns the error.
C8_AbortsOnReadFailure ==
    (op = "new" /\ faults > 0) =>
        /\ log[Len(log)].k = "rfail"
        /\ wr = 1
        /\ ~ Running => ret = "Err"

(***************************************************************************)
(* Claims about clear_display and set_pixel (specification Spec)           *)
(***************************************************************************)
RECURSIVE SumN(_, _, _)
SumN(s, lo, hi) == IF lo > hi THEN 0 ELSE s[lo].n + SumN(s, lo + 1, hi)

\* C9: after clear_display every byte of controller memory from address 0
\* through graphics_layer_start + (screen_width/8) * screen_height - 1 is
\* zero; the operation writes Csrw 0 0, CsrDirRight, Mwrite and then zero
\* data bytes only, (screen_width/8) * screen_height of them times a whole
\* number, that product computed without 16-bit overflow.
C9_ClearsThroughGraphicsLayer ==
    Finished("clear_display") =>
        LET total == (config.screen_width \div 8) * config.screen_height
            last == config.graphics_layer_start + total - 1
            zeros == SumN(log, 6, Len(log))
        IN /\ \A a \in DOMAIN mem : a > last
           /\ Len(log) >= 5
           /\ IsCmd(log[1], 70) /\ IsData(log[2]) /\ log[2].b = 0
           /\ IsData(log[3]) /\ log[3].b = 0
           /\ IsCmd(log[4], 76) /\ IsCmd(log[5], 66)
           /\ \A j \in 6..Len(log) : IsData(log[j]) /\ log[j].b = 0
           /\ total < U16
           /\ total > 0 => (zeros >= total /\ zeros % total = 0)

\* the cursor address bytes and the data byte set_pixel has written so far
\* are those of byte address `addr` and bit mask `mask`
PixelTransfers(addr, mask) ==
    LET n == Len(log)
        cur == IF n >= 5 /\ log[5].k = "r" THEN log[5].b ELSE 0
    IN /\ n <= 10
       /\ n >= 1 => IsCmd(log[1], 70)
       /\ n >= 2 => IsData(log[2]) /\ log[2].b = addr % 256
       /\ n >= 3 => IsData(log[3]) /\ log[3].b = addr \div 256
       /\ n >= 4 => IsCmd(log[4], 67)
       /\ n >= 5 => log[5].k \in {"r", "rfail"}
       /\ n >= 6 => IsCmd(log[6], 70)
       /\ n >= 7 => IsData(log[7]) /\ log[7].b = addr % 256
       /\ n >= 8 => IsData(log[8]) /\ log[8].b = addr \div 256
       /\ n >= 9 => IsCmd(log[9], 66)
       /\ n >= 10 => IsData(log[10]) /\ log[10].b = BitOr(cur, mask)
       /\ Finished("set_pixel") => n = 10

\* graphics_layer_start + y * (screen_width/8) + x / w, as an integer
ByteAddr(x, y, w) ==
    config.graphics_layer_start + y * (config.screen_width \div 8) + x \div w

\* C10: for the pixels whose byte address fits the 16-bit address space,
\* set_pixel addresses byte
\* graphics_layer_start + y * (screen_width/8) + x / font_width and uses bit
\* mask 1 << (7 - (x mod font_width)), for every font_width.
C10_ByteAndMaskByFontWidth ==
    (op = "set_pixel" /\ ByteAddr(opargs[1], opargs[2], 8) < U16) =>
        PixelTransfers(ByteAddr(opargs[1], opargs[2], config.font_width),
                       2 ^ (7 - (opargs[1] % config.font_width)))

\* what set_pixel does instead: it addresses byte
\* graphics_layer_start + y * (screen_width/8) + x / 8 and uses bit mask
\* 1 << (7 - (x mod 8)), whatever font_width is; when that address does not
\* fit 16 bits, a build that checks overflow panics before any transfer and
\* a build that does not addresses the byte at the address modulo 2^16.
SetPixelByEight ==
    op = "set_pixel" =>
        LET wide == ByteAddr(opargs[1], opargs[2], 8) IN
        IF wide >= U16 /\ build = "debug"
        THEN log = << >> /\ (~ Running => ret = "Panic")
        ELSE /\ PixelTransfers(wide % U16, 2 ^ (7 - (opargs[1] % 8)))
             /\ ret # "Panic"

(***************************************************************************)
(* Claims about the effect of set_pixel on controller memory               *)
(* (specification Spec)                                                    *)
(***************************************************************************)
\* the byte address and the bit number set_pixel computes for the pixel
\* of the running operation
OpAddr == ByteAddr(opargs[1], opargs[2], 8) % U16
OpBit == 7 - (opargs[1] % 8)

\* the step in which the chip latches the data byte of a set_pixel whose bus
\* read ended as `kind` ("r": a byte, "rfail": an error): the transfers before
\* it end with the read, Csrw and its two address bytes, and Mwrite
PixelWriteAfter(kind) ==
    LET n == Len(log) IN
    /\ n >= 9
    /\ log[n - 4].k = kind
    /\ IsCmd(log[n - 3], Csrw) /\ IsData(log[n - 2]) /\ IsData(log[n - 1])
    /\ IsCmd(log[n], Mwrite)
    /\ Len(log') = n + 1
    /\ IsData(log'[n + 1])

PixelWrite == PixelWriteAfter("r")

\* the address that set_pixel has sent
PixelWriteAddr == log[Len(log) - 2].b + 256 * log[Len(log) - 1].b

C12_FalseClearsBit ==
    (Finished("set_pixel") /\ rres.ok /\ opargs[3] = FALSE
     /\ ByteAddr(opargs[1], opargs[2], 8) < U16) =>
        Bit(MemAt(mem, OpAddr), 7 - (opargs[1] % config.font_width)) = 0

(***************************************************************************)
(* Claims about write_text_at (specification Spec)                         *)
(***************************************************************************)
\* the transfers of write_text_at(text, x, y): Csrw, the low and the high
\* byte of the character cell's address, Mwrite, the bytes of the text
TextTransfers(text, x, y) ==
    LET addr == config.text_layer_start
                  + (y \div config.font_height)
                      * (config.screen_width \div config.font_width)
                  + x \div config.font_width
    IN << L("w", CommandLevel, Csrw, 1), L("w", DataLevel, addr % 256, 1),
          L("w", DataLevel, addr \div 256, 1), L("w", CommandLevel, Mwrite, 1) >>
       \o [k \in 1..Len(text) |-> L("w", DataLevel, text[k], 1)]

OnScreen(x, y) == x < config.screen_width /\ y < config.screen_height

FirstCmd ==
    IF \E i \in 1..Len(log) : IsCommand(log[i])
    THEN CHOOSE i \in 1..Len(log) :
            IsCommand(log[i]) /\ \A j \in 1..(i - 1) : ~ IsCommand(log[j])
    ELSE 0

\* the data bytes that follow it, up to the next command byte
FirstParams ==
    LET i == FirstCmd
        rest == SubSeq(log, i + 1, Len(log))
        stop == IF \E j \in 1..Len(rest) : ~ IsData(rest[j])
                THEN (CHOOSE j \in 1..Len(rest) :
                        ~ IsData(rest[j]) /\ \A h \in 1..(j - 1) : IsData(rest[h])) - 1
                ELSE Len(rest)
    IN [k \in 1..stop |-> rest[k].b]

\* they are complete: another transfer follows them, or the constructor is over
FirstParamsDone ==
    FirstCmd + Len(FirstParams) < Len(log) \/ ~ Running

ColumnRegister ==
    (config.screen_width \div config.font_width) * ((config.font_width + 7) \div 8)

\* the constructor's first command is SystemSet, and the data bytes that
\* follow it are the bytes `want`, all of them and no more
SystemSetFollowedBy(want) ==
    (op = "new" /\ FirstCmd > 0) =>
        /\ IsCmd(log[FirstCmd], SystemSet)
        /\ Len(FirstParams) <= Len(want)
        /\ FirstParams = SubSeq(want, 1, Len(FirstParams))
        /\ FirstParamsDone => FirstParams = want

C17_WitnessPanic ==
    /\ op = "new" /\ build = "debug" /\ geom = <<200, 8, 200, 600>>
    /\ ret = "Panic" /\ Len(log) = FirstCmd /\ FirstCmd > 0

C19_StrobesExclusive ==
    /\ ~ (wr = 0 /\ rd = 0)
    /\ (op \notin {"off", "idle"} /\ ~ Running /\ ret \in {"Ok", "Err"}) =>
            (wr = 1 /\ rd = 1)

\* its two parts
C19_NeverBothLow == ~ (wr = 0 /\ rd = 0)
C19_HighOnReturn ==
    (op \notin {"off", "idle"} /\ ~ Running /\ ret \in {"Ok", "Err"}) =>
        (wr = 1 /\ rd = 1)

(***************************************************************************)
(* Claims about the range of pixel addresses (specification Spec)          *)
(***************************************************************************)
\* the address set_pixel sent with its first Csrw
SentAddr == log[2].b + 256 * log[3].b

\* C20: for a pixel on the screen, set_pixel computes its byte address
\* without 16-bit wrap-around, and the address lies in the graphics layer:
\* graphics_layer_start <= byte_addr
\*   < graphics_layer_start + (screen_width/8) * screen_height.
C20_AddressInGraphicsLayer ==
    (op = "set_pixel" /\ OnScreen(opargs[1], opargs[2])) =>
        /\ ret # "Panic"
        /\ Len(log) >= 3 =>
            /\ SentAddr = ByteAddr(opargs[1], opargs[2], 8)
            /\ SentAddr >= config.graphics_layer_start
            /\ SentAddr < config.graphics_layer_start
                            + (config.screen_width \div 8) * config.screen_height

(***************************************************************************)
(* Claims about draw_line and draw_rectangle (specification SpecDraw)      *)
(***************************************************************************)
Abs(v) == IF v < 0 THEN - v ELSE v
Sign(v) == IF v < 0 THEN -1 ELSE IF v > 0 THEN 1 ELSE 0
Max(u, v) == IF u >= v THEN u ELSE v

\* C13: for every pair of endpoints draw_line terminates without an
\* arithmetic overflow, and the last pixel it plots is (x1, y1).
C13_LineReachesEndpoint ==
    op = "draw_line" =>
        /\ ret # "Panic"
        /\ Finished("draw_line") =>
                /\ plotted # << >>
                /\ plotted[Len(plotted)] = << opargs[3], opargs[4] >>

\* C14: for endpoints inside the screen, the pixels draw_line plots start at
\* (x0, y0), are max(|x1-x0|, |y1-y0|) + 1 in number, and from one pixel to
\* the next each coordinate stays or moves by 1 towards the endpoint, at
\* least one of them moving (so no pixel is plotted twice) and both of them
\* when |x1-x0| = |y1-y0|; the last pixel is (x1, y1).
C14_LineShape ==
    (op = "draw_line" /\ OnScreen(opargs[1], opargs[2])
                      /\ OnScreen(opargs[3], opargs[4])) =>
        LET n == Len(plotted)
            ddx == opargs[3] - opargs[1]
            ddy == opargs[4] - opargs[2]
            count == Max(Abs(ddx), Abs(ddy)) + 1
        IN /\ ret # "Panic"
           /\ n <= count
           /\ n >= 1 => plotted[1] = << opargs[1], opargs[2] >>
           /\ \A i \in 1..(n - 1) :
                LET mx == plotted[i + 1][1] - plotted[i][1]
                    my == plotted[i + 1][2] - plotted[i][2]
                IN /\ mx \in {0, Sign(ddx)}
                   /\ my \in {0, Sign(ddy)}
                   /\ mx # 0 \/ my # 0
                   /\ Abs(ddx) = Abs(ddy) => (mx # 0 /\ my # 0)
           /\ Finished("draw_line") =>
                /\ n = count
                /\ plotted[n] = << opargs[3], opargs[4] >>

C14_Witness ==
    /\ Finished("draw_line")
    /\ opargs = <<0, 0, 4, 1>>
    /\ Len(plotted) = 5
    /\ plotted[5] = <<4, 1>>
    /\ \E i \in 1..4 : plotted[i][2] = plotted[i + 1][2]

\* the diagonal of the claim
C14_Diagonal ==
    (Finished("draw_line") /\ opargs = <<0, 0, 3, 3>>) =>
        plotted = << <<0, 0>>, <<1, 1>>, <<2, 2>>, <<3, 3>> >>

\* the pixels on the perimeter of the rectangle with the given corners
Perimeter(x0, y0, x1, y1) ==
    LET lx == IF x0 <= x1 THEN x0 ELSE x1
        hx == IF x0 <= x1 THEN x1 ELSE x0
        ly == IF y0 <= y1 THEN y0 ELSE y1
        hy == IF y0 <= y1 THEN y1 ELSE y0
    IN { <<x, y>> : x \in lx..hx, y \in {ly, hy} }
         \cup { <<x, y>> : x \in {lx, hx}, y \in ly..hy }

\* C15: draw_rectangle plots exactly the pixels of the perimeter of the
\* rectangle, and each of them exactly once.
C15_PerimeterOnce ==
    Finished("draw_rectangle") =>
        /\ { plotted[i] : i \in 1..Len(plotted) }
             = Perimeter(opargs[1], opargs[2], opargs[3], opargs[4])
        /\ \A i, j \in 1..Len(plotted) : plotted[i] = plotted[j] => i = j

\* what holds of every rectangle, degenerate or not: the pixels plotted are
\* those of the perimeter
RectangleCoversPerimeter ==
    Finished("draw_rectangle") =>
        { plotted[i] : i \in 1..Len(plotted) }
          = Perimeter(opargs[1], opargs[2], opargs[3], opargs[4])

====
